---- MODULE Spec2Model ----
(***************************************************************************)
(* organize_pictures.py: organise the image files under a root directory   *)
(* into root/Year/Month/Day folders.                                        *)
(*                                                                         *)
(* The filesystem is a function from paths to files.  A path is            *)
(* <<folder, name>>; a folder is Root (the source directory itself) or the *)
(* folder of one calendar day, root/YYYY/MM/DD, written <<d>>; a name is a  *)
(* record [stem, suffix] as pathlib splits it.  A datetime is a calendar   *)
(* day and a second of that day; a timestamp is a number of seconds.       *)
(***************************************************************************)
EXTENDS Integers, Sequences, FiniteSets, TLC

VARIABLES
    fs,           \* path -> file: the regular files under the root
    dirs,         \* the folders that exist
    root_exists,  \* source_dir.exists()
    dry_run,      \* the dry_run argument of the running pass
    pc,           \* position in organize_pictures: "start", "loop", "done"
    image_files,  \* the list enumerated by rglob at the start of the pass
    idx,          \* index in image_files of the next file of the for loop
    moved_count,
    error_count,
    out,          \* the lines printed by the running pass, one record each
    main_pc,      \* position in __main__; "call" when the function is called directly
    response,     \* the operator's answer to the prompt, as typed
    summary,      \* the summary block printed by the running pass (<<>> until then)
    fs0,          \* the files when the program was started
    dirs0         \* the folders when the program was started

vars == <<fs, dirs, root_exists, dry_run, pc, image_files, idx, moved_count,
          error_count, out, summary, main_pc, response, fs0, dirs0>>

----------------------------------------------------------------------------
(* Bounds of the model *)

\* at most this many regular files under the root
NumFiles == 3
\* at most this many tags in the EXIF data of a file
MaxTags == 2

\* calendar days and seconds of a day
Days == {0, 1}
Secs == {0, 1}
DayLen == Cardinality(Secs)
Timestamps == {d * DayLen + s : d \in Days, s \in Secs}

----------------------------------------------------------------------------
(* datetime *)

\* datetime.fromtimestamp: the local calendar time of a timestamp
fromtimestamp(ts) == [day |-> ts \div DayLen, sec |-> ts % DayLen]

\* datetime.timestamp
timestamp(dt) == dt.day * DayLen + dt.sec

\* An EXIF date value is the text "YYYY:MM:DD HH:MM:SS": here the sequence of
\* its two parts, <<day, second>>.  strptime accepts it when both parts are
\* there and in range.
strptime_ok(value) == Len(value) = 2 /\ value[1] \in Days /\ value[2] \in Secs
strptime(value) == [day |-> value[1], sec |-> value[2]]

----------------------------------------------------------------------------
(* get_date_taken *)

\* The EXIF data of a file: readable is FALSE when Image.open or _getexif
\* raises; items is exif_data.items() in the order the dictionary yields
\* them, each tag already named by TAGS.get (<<>> for no EXIF data).
ExifNone == [readable |-> TRUE, items |-> <<>>]
ExifUnreadable == [readable |-> FALSE, items |-> <<>>]
Item(t, v) == [tag |-> t, value |-> v]

NoDate == [day |-> -1, sec |-> -1]

\* the tags the loop of get_date_taken stops at
IsDateTag(tag) == tag = "DateTimeOriginal" \/ tag = "DateTime"

\* index of the first item the for loop returns from, 0 if it runs through
RECURSIVE FirstDateTag(_, _)
FirstDateTag(items, i) ==
    IF i > Len(items) THEN 0
    ELSE IF IsDateTag(items[i].tag) THEN i
    ELSE FirstDateTag(items, i + 1)

\* get_date_taken without its try/except: a date tag that does not parse, or
\* unreadable metadata, raises to the caller
get_date_taken_unguarded(fsys, path) ==
    IF path \notin DOMAIN fsys
    THEN [raised |-> TRUE, diag |-> TRUE, date |-> NoDate]
    ELSE LET exif == fsys[path].exif
             i == IF exif.readable THEN FirstDateTag(exif.items, 1) ELSE 0
         IN IF ~exif.readable \/ (i > 0 /\ ~strptime_ok(exif.items[i].value))
            THEN [raised |-> TRUE, diag |-> FALSE, date |-> NoDate]
            ELSE IF i > 0
            THEN [raised |-> FALSE, diag |-> FALSE,
                  date |-> strptime(exif.items[i].value)]
            ELSE [raised |-> FALSE, diag |-> FALSE,
                  date |-> fromtimestamp(fsys[path].mtime)]

\* get_date_taken(image_path) on filesystem fsys.  raised: an exception leaves
\* the function (os.path.getmtime of a missing file); diag: the "Could not
\* read EXIF" line was printed.
get_date_taken(fsys, path) ==
    IF path \notin DOMAIN fsys
    THEN [raised |-> TRUE, diag |-> TRUE, date |-> NoDate]
    ELSE LET exif == fsys[path].exif
             i == IF exif.readable THEN FirstDateTag(exif.items, 1) ELSE 0
         IN IF i > 0 /\ strptime_ok(exif.items[i].value)
            THEN [raised |-> FALSE, diag |-> FALSE,
                  date |-> strptime(exif.items[i].value)]
            ELSE [raised |-> FALSE, diag |-> ~exif.readable \/ i > 0,
                  date |-> fromtimestamp(fsys[path].mtime)]

----------------------------------------------------------------------------
(* paths *)

Root == <<>>
Name(stem, suffix) == [stem |-> stem, suffix |-> suffix]
Path(folder, name) == <<folder, name>>
FolderOf(path) == path[1]
NameOf(path) == path[2]

\* str.lower on the suffixes of the model
lower(suffix) == IF suffix = ".JPG" THEN ".jpg" ELSE suffix

image_extensions == {".jpg", ".jpeg", ".png", ".gif", ".bmp", ".tiff", ".tif",
                     ".heic", ".heif", ".raw", ".cr2", ".nef", ".arw"}

\* the filter of the rglob comprehension (every path of fs is a regular file)
is_image(path) == lower(NameOf(path).suffix) \in image_extensions

\* source_dir / year / month / day
target_folder_of(date) == <<date.day>>

\* the counter written into every candidate: -copy1, -copy2, ...
copy_name_numbered(name, counter) ==
    Name(name.stem \o "-copy" \o ToString(counter), name.suffix)

\* f"{stem}-copy{suffix}" for counter 1, f"{stem}-copy{counter}{suffix}" after
copy_name(name, counter) ==
    IF counter = 1
    THEN Name(name.stem \o "-copy", name.suffix)
    ELSE Name(name.stem \o "-copy" \o ToString(counter), name.suffix)

\* the while loop: the first candidate, from counter on, that does not exist
RECURSIVE first_unused(_, _, _, _)
first_unused(fsys, folder, name, counter) ==
    IF Path(folder, copy_name(name, counter)) \in DOMAIN fsys
    THEN first_unused(fsys, folder, name, counter + 1)
    ELSE copy_name(name, counter)

\* target_path without the collision check
target_path_unchecked(fsys, folder, name) == Path(folder, name)

\* target_path after the collision check
target_path_of(fsys, folder, name) ==
    IF Path(folder, name) \in DOMAIN fsys
    THEN Path(folder, first_unused(fsys, folder, name, 1))
    ELSE Path(folder, name)

\* shutil.move(src, dst): the file leaves src and is at dst, replacing what
\* was there
move(fsys, src, dst) ==
    [p \in (DOMAIN fsys \ {src}) \cup {dst} |->
        IF p = dst THEN fsys[src] ELSE fsys[p]]

\* os.utime(path, (ts, ts))
utime(fsys, path, ts) ==
    [fsys EXCEPT ![path].atime = ts, ![path].mtime = ts]

\* win32_setctime.setctime(path, ts)
setctime(fsys, path, ts) == [fsys EXCEPT ![path].ctime = ts]

----------------------------------------------------------------------------
(* organize_pictures *)

\* where an exception is raised in the real branch of one iteration
Faults == {"none", "mkdir", "move", "utime", "setctime"}

\* every order in which rglob can yield the files of S
Orders(S) ==
    {o \in [1..Cardinality(S) -> S] : \A i, j \in DOMAIN o : o[i] = o[j] => i = j}

\* moved_count incremented in the dry run too
counters_after_counting_dry(moved, errors, outcome) ==
    [moved |-> IF outcome \in {"moved", "would"} THEN moved + 1 ELSE moved,
     errors |-> IF outcome = "error" THEN errors + 1 ELSE errors]

\* moved_count and error_count after an iteration that ended in outcome:
\* "would" (dry run), "moved" or "error" (the except clause)
counters_after(moved, errors, outcome) ==
    [moved |-> IF outcome = "moved" THEN moved + 1 ELSE moved,
     errors |-> IF outcome = "error" THEN errors + 1 ELSE errors]

\* the try around the loop instead of inside it: an error ends the loop
loop_after_abort(i, outcome) ==
    IF outcome = "error" THEN [pc |-> "done", idx |-> i + 1]
    ELSE [pc |-> "loop", idx |-> i + 1]

\* the for loop after an iteration: the except clause swallows the error
loop_after(i, outcome) == [pc |-> "loop", idx |-> i + 1]

\* the files after the real branch, left at fault by an exception
real_branch(fsys, src, dst, ts, fault) ==
    CASE fault \in {"mkdir", "move"} -> fsys
      [] fault = "utime" -> move(fsys, src, dst)
      [] fault = "setctime" -> utime(move(fsys, src, dst), dst, ts)
      [] OTHER -> setctime(utime(move(fsys, src, dst), dst, ts), dst, ts)

\* lines 44-63: the root check and the enumeration
Start ==
    /\ pc = "start"
    /\ IF ~root_exists
       THEN /\ pc' = "done"
            /\ UNCHANGED <<image_files, idx, moved_count, error_count, out, summary>>
       ELSE /\ \E order \in Orders({p \in DOMAIN fs : is_image(p)}) :
                  image_files' = order
            /\ idx' = 1
            /\ moved_count' = 0
            /\ error_count' = 0
            /\ out' = <<>>
            /\ summary' = <<>>
            /\ pc' = "loop"
    /\ UNCHANGED <<fs, dirs, root_exists, dry_run, main_pc, response, fs0, dirs0>>

\* lines 65-114: one iteration of the for loop, with dry_run = dry
Iteration(dry, fault) ==
    /\ pc = "loop"
    /\ idx <= Len(image_files)
    /\ LET image_file == image_files[idx]
           r == get_date_taken(fs, image_file)
           target_folder == target_folder_of(r.date)
           duplicate == Path(target_folder, NameOf(image_file)) \in DOMAIN fs
           target_path == target_path_of(fs, target_folder, NameOf(image_file))
           outcome == IF r.raised \/ fault # "none" THEN "error"
                      ELSE IF dry THEN "would" ELSE "moved"
           counters == counters_after(moved_count, error_count, outcome)
           after == loop_after(idx, outcome)
       IN /\ fault # "none" => ~dry /\ ~r.raised
          /\ fs' = IF r.raised \/ dry THEN fs
                   ELSE real_branch(fs, image_file, target_path,
                                    timestamp(r.date), fault)
          /\ dirs' = IF r.raised \/ dry \/ fault = "mkdir" THEN dirs
                     ELSE dirs \cup {target_folder}
          /\ out' = Append(out, [file |-> image_file,
                                 line |-> outcome,
                                 fault |-> fault,
                                 diag |-> r.diag,
                                 date |-> r.date,
                                 duplicate |-> ~r.raised /\ duplicate,
                                 target |-> IF r.raised THEN image_file
                                            ELSE target_path])
          /\ moved_count' = counters.moved
          /\ error_count' = counters.errors
          /\ pc' = after.pc
          /\ idx' = after.idx
    /\ UNCHANGED <<root_exists, dry_run, image_files, summary, main_pc,
                   response, fs0, dirs0>>

\* the loop body with the dry_run test left out
ProcessFile_ignoring_dry_run == \E fault \in Faults : Iteration(FALSE, fault)

ProcessFile == \E fault \in Faults : Iteration(dry_run, fault)

\* lines 116-121: the summary block
Summary ==
    /\ pc = "loop"
    /\ idx > Len(image_files)
    /\ summary' = <<[found |-> Len(image_files),
                     moved |-> moved_count,
                     errors |-> error_count,
                     skipped |-> Len(image_files) - moved_count - error_count]>>
    /\ pc' = "done"
    /\ UNCHANGED <<fs, dirs, root_exists, dry_run, image_files, idx, moved_count,
                   error_count, out, main_pc, response, fs0, dirs0>>

----------------------------------------------------------------------------
(* __main__ *)

Whitespace == {" "}

RECURSIVE lstrip(_)
lstrip(s) == IF s # <<>> /\ Head(s) \in Whitespace THEN lstrip(Tail(s)) ELSE s

RECURSIVE rstrip(_)
rstrip(s) ==
    IF s # <<>> /\ s[Len(s)] \in Whitespace
    THEN rstrip(SubSeq(s, 1, Len(s) - 1))
    ELSE s

\* str.strip
strip(s) == rstrip(lstrip(s))

lower_char(c) ==
    CASE c = "Y" -> "y" [] c = "E" -> "e" [] c = "S" -> "s"
      [] c = "N" -> "n" [] c = "O" -> "o" [] OTHER -> c

\* str.lower
str_lower(s) == [i \in 1..Len(s) |-> lower_char(s[i])]

\* any answer that begins with a y
proceeds_on_prefix(typed) ==
    LET r == str_lower(strip(typed)) IN r # <<>> /\ r[1] = "y"

\* response in ['yes', 'y'], response being input(...).strip().lower()
proceeds(typed) == str_lower(strip(typed)) \in {<<"y", "e", "s">>, <<"y">>}

\* what the operator may type
Responses == {<<"y", "e", "s">>, <<" ", "Y", "E", "S", " ">>, <<"Y">>,
              <<"n", "o">>, <<>>, <<"y", " ", "e", "s">>, <<"y", "e">>}

\* lines 133-143, after the dry run returned: the prompt and its two branches
Prompt ==
    /\ main_pc = "dry"
    /\ pc = "done"
    /\ \E typed \in Responses :
          /\ response' = <<typed>>
          /\ IF proceeds(typed)
             THEN /\ main_pc' = "real"
                  /\ dry_run' = FALSE
                  /\ pc' = "start"
             ELSE /\ main_pc' = "cancelled"
                  /\ UNCHANGED <<dry_run, pc>>
    /\ UNCHANGED <<fs, dirs, root_exists, image_files, idx, moved_count,
                   error_count, out, summary, fs0, dirs0>>

\* line 141: the real pass returned
Finish ==
    /\ main_pc = "real"
    /\ pc = "done"
    /\ main_pc' = "finished"
    /\ UNCHANGED <<fs, dirs, root_exists, dry_run, pc, image_files, idx,
                   moved_count, error_count, out, summary, response, fs0, dirs0>>

----------------------------------------------------------------------------
(* Initial states *)

\* a file as first found: its content is named by orig, the path it starts at
File(path, exif, mtime) ==
    [orig |-> path, exif |-> exif, atime |-> mtime, mtime |-> mtime, ctime |-> mtime]

Folders == {Root} \cup {<<d>> : d \in Days}

ImagePaths == {Path(f, Name("a", ".JPG")) : f \in Folders}
                 \cup {Path(<<0>>, Name("a-copy", ".JPG"))}
OtherPaths == {Path(f, Name("a", ".txt")) : f \in {Root, <<0>>}}

\* the metadata (EXIF data, modification time) of the files of a tree
DateTimeOriginal(d, s) == Item("DateTimeOriginal", <<d, s>>)
ImageMetas == {<<ExifNone, 1>>, <<ExifNone, 2>>,
               <<[readable |-> TRUE, items |-> <<DateTimeOriginal(0, 0)>>], 3>>}
OtherMetas == {<<ExifNone, 1>>}

MetasOf(path) == IF path \in ImagePaths THEN ImageMetas ELSE OtherMetas

TreesOn(P) ==
    {[p \in P |-> File(p, m[p][1], m[p][2])] :
        m \in {mm \in [P -> ImageMetas \cup OtherMetas] :
                  \A p \in P : mm[p] \in MetasOf(p)}}

\* the trees of at most NumFiles files
Trees ==
    UNION {TreesOn(P) :
              P \in {Q \in SUBSET (ImagePaths \cup OtherPaths) :
                        Cardinality(Q) <= NumFiles}}

DirsOf(tree) == {Root} \cup {FolderOf(p) : p \in DOMAIN tree}

InitPass(tree, exists, dry, at) ==
    /\ fs = tree
    /\ dirs = IF exists THEN DirsOf(tree) ELSE {}
    /\ root_exists = exists
    /\ dry_run = dry
    /\ pc = "start"
    /\ image_files = <<>>
    /\ idx = 1
    /\ moved_count = 0
    /\ error_count = 0
    /\ out = <<>>
    /\ summary = <<>>
    /\ main_pc = at
    /\ response = <<>>
    /\ fs0 = fs
    /\ dirs0 = dirs

EmptyTree == [p \in {} |-> 0]

\* organize_pictures(source_dir, dry_run) called on a tree
Init ==
    \E dry \in BOOLEAN :
       \/ \E tree \in Trees : InitPass(tree, TRUE, dry, "call")
       \/ InitPass(EmptyTree, FALSE, dry, "call")

Next == Start \/ ProcessFile \/ Summary

Spec == Init /\ [][Next]_vars

\* the program run from the command line, on the trees of images without
\* EXIF data
MainTrees ==
    {t \in Trees : \A p \in DOMAIN t : is_image(p) /\ t[p].exif = ExifNone}

InitMain ==
    \/ \E tree \in MainTrees : InitPass(tree, TRUE, TRUE, "dry")
    \/ InitPass(EmptyTree, FALSE, TRUE, "dry")

NextMain == Start \/ ProcessFile \/ Summary \/ Prompt \/ Finish

SpecMain == InitMain /\ [][NextMain]_vars

\* get_date_taken on its own: one image, with every EXIF data of at most
\* MaxTags tags (a dictionary: no tag twice), moved by a pass
TagNames == {"DateTimeOriginal", "DateTime", "Make"}
TagValues == {<<0, 1>>, <<1, 0>>, <<0>>, <<1, 2>>}

ExifItems ==
    UNION {{its \in [1..n -> {Item(t, v) : t \in TagNames, v \in TagValues}] :
               \A i, j \in 1..n : its[i].tag = its[j].tag => i = j} :
           n \in 0..MaxTags}

ExifAll == {ExifUnreadable} \cup {[readable |-> TRUE, items |-> its] : its \in ExifItems}

InitDate ==
    \E dry \in BOOLEAN :
       \/ \E path \in {Path(Root, Name("a", ".JPG")), Path(<<1>>, Name("a", ".JPG"))},
             exif \in ExifAll, mtime \in {1, 2} :
             InitPass([p \in {path} |-> File(p, exif, mtime)], TRUE, dry, "call")
       \/ InitPass(EmptyTree, FALSE, dry, "call")

SpecDate == InitDate /\ [][Next]_vars

----------------------------------------------------------------------------
(* Properties *)

PassDone == pc = "done" /\ root_exists
RealPassDone == PassDone /\ ~dry_run
Lines == {out[i] : i \in 1..Len(out)}

\* the path at which the file that started at p0 is now
Now(p0) == CHOOSE p \in DOMAIN fs : fs[p].orig = p0
Present(p0) == \E p \in DOMAIN fs : fs[p].orig = p0

\* C1: a real pass never overwrites a file: every file present before the pass
\* is still present, at one path, with its content unchanged, so the number of
\* files is the same.
C1_NoOverwrite ==
    /\ Cardinality(DOMAIN fs) = Cardinality(DOMAIN fs0)
    /\ \A p0 \in DOMAIN fs0 : Present(p0) /\ fs[Now(p0)].exif = fs0[p0].exif

\* C1 witness: a real pass moved a file to a folder where another file held its name
C1_Witness ==
    /\ RealPassDone
    /\ \E l \in Lines :
          l.line = "moved" /\ l.duplicate /\ FolderOf(l.file) # FolderOf(l.target)

\* the folder a file of the first tree belongs in, from the day of its EXIF
\* date or else of its modification time
Organized(tree) ==
    \A p \in DOMAIN tree :
        is_image(p) => FolderOf(p) = target_folder_of(get_date_taken(tree, p).date)

\* C2: a real pass over a tree that is already organized changes no path.
C2_Idempotent ==
    (RealPassDone /\ Organized(fs0)) => DOMAIN fs = DOMAIN fs0

\* C3: a simulate-only pass leaves the files, their timestamps and the folders
\* as they were.
C3_DryRunFrame == dry_run => fs = fs0 /\ dirs = dirs0

\* C3 witness: a simulate-only pass met a file whose name another file held in
\* the destination folder
C3_Witness ==
    /\ PassDone /\ dry_run
    /\ \E l \in Lines :
          l.line = "would" /\ l.duplicate /\ FolderOf(l.file) # FolderOf(l.target)

\* the names the collision rule tries, in order
NameSeq(name) ==
    <<name,
      Name(name.stem \o "-copy", name.suffix),
      Name(name.stem \o "-copy2", name.suffix),
      Name(name.stem \o "-copy3", name.suffix),
      Name(name.stem \o "-copy4", name.suffix),
      Name(name.stem \o "-copy5", name.suffix)>>

\* two source files outside their common destination folder, of one name
Collide(p, q) ==
    /\ p # q /\ is_image(p) /\ is_image(q)
    /\ NameOf(p) = NameOf(q)
    /\ LET dp == target_folder_of(get_date_taken(fs0, p).date)
           dq == target_folder_of(get_date_taken(fs0, q).date)
       IN dp = dq /\ FolderOf(p) # dp /\ FolderOf(q) # dp

DestOf(p) == target_folder_of(get_date_taken(fs0, p).date)
MovedOk(p) == \E l \in Lines : l.file = p /\ l.line = "moved"

\* C4 as claimed: after a real pass two colliding source files are both in the
\* destination folder, one under the name itself and the other under a name
\* of the -copy sequence.
C4_Original ==
    RealPassDone =>
        \A p, q \in DOMAIN fs0 :
            Collide(p, q) =>
                /\ Present(p) /\ Present(q)
                /\ FolderOf(Now(p)) = DestOf(p) /\ FolderOf(Now(q)) = DestOf(p)
                /\ \/ NameOf(Now(p)) = NameOf(p)
                   \/ NameOf(Now(q)) = NameOf(p)
                /\ \E k \in 2..Len(NameSeq(NameOf(p))) :
                      \/ NameOf(Now(p)) = NameSeq(NameOf(p))[k]
                      \/ NameOf(Now(q)) = NameSeq(NameOf(p))[k]

\* the last file moved, if it came from outside its destination folder, is at
\* the first name of the sequence that no other file of the folder holds
LastMoveFirstUnused ==
    out # <<>> =>
        LET l == out[Len(out)]
            seq == NameSeq(NameOf(l.file))
            folder == FolderOf(l.target)
            held(k) == Path(folder, seq[k]) \in DOMAIN fs
        IN (l.line = "moved" /\ FolderOf(l.file) # folder) =>
              \E k \in 1..Len(seq) :
                  /\ l.target = Path(folder, seq[k])
                  /\ held(k) /\ fs[l.target].orig = l.file
                  /\ \A j \in 1..(k - 1) : held(j)

\* C4, amended: each of two colliding source files that is moved without error
\* is put at the first unused name of the sequence name, -copy, -copy2, ... and
\* stays there; both moved, they hold two different names of the sequence, the
\* name itself and -copy when no other file holds or takes these.
C4_Amended ==
    /\ LastMoveFirstUnused
    /\ RealPassDone =>
          \A p, q \in DOMAIN fs0 :
              (Collide(p, q) /\ MovedOk(p) /\ MovedOk(q)) =>
                  LET seq == NameSeq(NameOf(p))
                      others == {r \in DOMAIN fs0 \ {p, q} :
                                    \/ FolderOf(r) = DestOf(p)
                                    \/ DestOf(r) = DestOf(p)}
                  IN /\ FolderOf(Now(p)) = DestOf(p)
                     /\ FolderOf(Now(q)) = DestOf(p)
                     /\ Now(p) # Now(q)
                     /\ \E k \in 1..Len(seq) : NameOf(Now(p)) = seq[k]
                     /\ \E k \in 1..Len(seq) : NameOf(Now(q)) = seq[k]
                     /\ others = {} =>
                           {NameOf(Now(p)), NameOf(Now(q))} = {seq[1], seq[2]}

\* C4 witness: two colliding files, both moved, under the name and its -copy
C4_Witness ==
    /\ RealPassDone
    /\ \E p, q \in DOMAIN fs0 :
          /\ Collide(p, q) /\ MovedOk(p) /\ MovedOk(q)
          /\ NameOf(Now(p)) = NameOf(p)
          /\ NameOf(Now(q)) = Name(NameOf(p).stem \o "-copy", NameOf(p).suffix)

\* the value of the tag named t in the EXIF data of a file, <<>> when the
\* data is unreadable or has no such tag
TagValue(exif, t) ==
    IF exif.readable /\ \E i \in 1..Len(exif.items) : exif.items[i].tag = t
    THEN exif.items[CHOOSE i \in 1..Len(exif.items) : exif.items[i].tag = t].value
    ELSE <<>>

WellFormed(value) == Len(value) = 2 /\ value[1] \in Days /\ value[2] \in Secs

\* C5: a file with a validly formatted DateTimeOriginal tag is dated by it,
\* goes to the folder of its day and gets it as modification time, whatever
\* other tags its EXIF data yields and in whatever order.
C5_OriginalWins ==
    \A l \in Lines :
        LET v == TagValue(fs0[l.file].exif, "DateTimeOriginal")
        IN WellFormed(v) =>
              /\ l.date = [day |-> v[1], sec |-> v[2]]
              /\ FolderOf(l.target) = <<v[1]>>
              /\ l.line = "moved" => fs[l.target].mtime = v[1] * DayLen + v[2]

\* the metadata gives no date: unreadable, no EXIF data, no date tag, no date
\* tag that parses, or the date tag get_date_taken meets first does not parse
NoExifDate(exif) ==
    \/ ~exif.readable
    \/ /\ ~WellFormed(TagValue(exif, "DateTimeOriginal"))
       /\ ~WellFormed(TagValue(exif, "DateTime"))
    \/ \E i \in 1..Len(exif.items) :
          /\ exif.items[i].tag \in {"DateTimeOriginal", "DateTime"}
          /\ ~WellFormed(exif.items[i].value)
          /\ \A j \in 1..(i - 1) :
                exif.items[j].tag \notin {"DateTimeOriginal", "DateTime"}

YesAnswers == {<<"y", "e", "s">>, <<" ", "Y", "E", "S", " ">>, <<"Y">>}

\* C7: the run starts with the simulate-only pass; the operator is asked only
\* when it has finished; the real pass runs only after a yes, and after any
\* other answer nothing has changed.
C7_DryThenAsk ==
    /\ main_pc \in {"dry", "real", "finished", "cancelled"}
    /\ main_pc = "dry" => dry_run /\ response = <<>> /\ fs = fs0 /\ dirs = dirs0
    /\ ~dry_run => main_pc \in {"real", "finished"}
    /\ main_pc \in {"real", "finished"} =>
          ~dry_run /\ response # <<>> /\ response[1] \in YesAnswers
    /\ main_pc = "cancelled" =>
          /\ response # <<>> /\ response[1] \notin YesAnswers
          /\ dry_run /\ pc = "done"
          /\ fs = fs0 /\ dirs = dirs0

\* C7 witness: the real pass moved a file after the answer " YES "
C7_Witness ==
    /\ main_pc = "finished"
    /\ response = << <<" ", "Y", "E", "S", " ">> >>
    /\ moved_count > 0

\* the number of lines of out that are errors
RECURSIVE ErrorLines(_)
ErrorLines(i) ==
    IF i = 0 THEN 0
    ELSE ErrorLines(i - 1) + (IF out[i].line = "error" THEN 1 ELSE 0)

\* C8: every file of the list is attempted once, in order, whatever failed
\* before; each error counts once; the pass goes on to the summary.
C8_ErrorsDoNotStop ==
    /\ pc = "loop" => Len(out) = idx - 1
    /\ Len(out) <= Len(image_files)
    /\ \A i \in 1..Len(out) : out[i].file = image_files[i]
    /\ pc # "start" => error_count = ErrorLines(Len(out))
    /\ PassDone => Len(out) = Len(image_files) /\ summary # <<>>
    /\ pc = "done" \/ ENABLED Next

\* C8 witness: a pass reached the summary after two files failed and a later
\* one was moved
C8_Witness ==
    /\ PassDone
    /\ error_count >= 2
    /\ Len(out) >= 3
    /\ out[1].line = "error" /\ out[Len(out)].line = "moved"

\* C9 as claimed: the skipped count of every pass is zero.
C9_SkippedZero == summary # <<>> => summary[1].skipped = 0

\* C9, amended: the skipped count is found minus moved minus errored; it is
\* zero at the end of a real pass, and in a simulate-only pass nothing is
\* counted as moved, so it is found minus errored.
C9_Amended ==
    summary # <<>> =>
        /\ summary[1].found = Len(image_files)
        /\ summary[1].skipped = summary[1].found - summary[1].moved - summary[1].errors
        /\ ~dry_run => summary[1].skipped = 0
        /\ dry_run => summary[1].moved = 0
                      /\ summary[1].skipped = summary[1].found - summary[1].errors

\* C9 witness: a simulate-only pass that found files reports them all skipped
C9_Witness ==
    /\ summary # <<>>
    /\ dry_run
    /\ summary[1].found >= 2
    /\ summary[1].skipped = summary[1].found

\* C10: in a real pass a file counted as an error is where it was, as it
\* was, and moved_count is the number of files whose path changed.
C10_CountersAgree ==
    (~dry_run /\ pc # "start") =>
        /\ \A l \in Lines :
              l.line = "error" => l.file \in DOMAIN fs /\ fs[l.file] = fs0[l.file]
        /\ moved_count = Cardinality({p \in DOMAIN fs : fs[p].orig # p})

====
